---- MODULE Spec2Model ----
(***************************************************************************)
(* A model of extract_urls.py (src/urls.py): the URL tokenizer, the        *)
(* normalizer, the code-hosting link classifier, the container readers     *)
(* and the lock-protected result sets shared by the worker threads.        *)
(*                                                                         *)
(* Python strings are modelled as sequences of one-character strings, so   *)
(* that slicing, searching and case conversion are computed, not assumed.  *)
(***************************************************************************)
EXTENDS Integers, Sequences, FiniteSets, TLC

VARIABLES
    inputs,               \* the input paths of the run: what each one holds
    zstd,                 \* whether `import zstandard` succeeded (lines 18-21)
    poolSize,             \* the number of worker threads of the pool
    queue,                \* the inputs submitted and not yet taken by a worker
    worker,               \* per worker thread: where it is in its task
    status,               \* per input: queued, running, returned or raised
    lock,                 \* the holder of `lock` (line 43), 0 when free
    all_urls,             \* line 31
    git_urls,             \* line 32
    git_urls_classified,  \* lines 33-41
    acquired,             \* per input: how often its task acquired `lock`
    round,                \* 1, or 2 when the same inputs are scanned again
    firstRun,             \* the result sets the first scan ended with
    fn,                   \* which pure function has been applied to arg
    arg,                  \* the argument of the pure function under check
    res,                  \* its result
    res2                  \* normalize_url applied to res

---------------------------------------------------------------------------
(* Python str operations                                                   *)

LowerLetters ==
    {"a","b","c","d","e","f","g","h","i","j","k","l","m",
     "n","o","p","q","r","s","t","u","v","w","x","y","z"}

UpperLetters ==
    {"A","B","C","D","E","F","G","H","I","J","K","L","M",
     "N","O","P","Q","R","S","T","U","V","W","X","Y","Z"}

Digits == {"0","1","2","3","4","5","6","7","8","9"}

\* str.lower() on one character
LowerChar(c) ==
    CASE c = "A" -> "a" [] c = "B" -> "b" [] c = "C" -> "c" [] c = "D" -> "d"
      [] c = "E" -> "e" [] c = "F" -> "f" [] c = "G" -> "g" [] c = "H" -> "h"
      [] c = "I" -> "i" [] c = "J" -> "j" [] c = "K" -> "k" [] c = "L" -> "l"
      [] c = "M" -> "m" [] c = "N" -> "n" [] c = "O" -> "o" [] c = "P" -> "p"
      [] c = "Q" -> "q" [] c = "R" -> "r" [] c = "S" -> "s" [] c = "T" -> "t"
      [] c = "U" -> "u" [] c = "V" -> "v" [] c = "W" -> "w" [] c = "X" -> "x"
      [] c = "Y" -> "y" [] c = "Z" -> "z" [] OTHER -> c

\* s.lower()
Lower(s) == [i \in 1..Len(s) |-> LowerChar(s[i])]

\* s[i-1:j] of Python, as the 1-based closed slice i..j (empty when j < i)
Slice(s, i, j) == IF j < i THEN <<>> ELSE SubSeq(s, i, j)

\* s.startswith(sub, i-1): sub occurs in s at the 1-based position i
OccursAt(s, sub, i) ==
    /\ i >= 1
    /\ i + Len(sub) - 1 <= Len(s)
    /\ \A k \in 1..Len(sub) : s[i + k - 1] = sub[k]

StartsWith(s, sub) == OccursAt(s, sub, 1)

EndsWith(s, sub) == OccursAt(s, sub, Len(s) - Len(sub) + 1)

\* the positions at or after `from` where sub occurs in s
Occurrences(s, sub, from) == {i \in from..Len(s) : OccursAt(s, sub, i)}

Min(S) == CHOOSE x \in S : \A y \in S : x <= y

Max(S) == CHOOSE x \in S : \A y \in S : x >= y

\* s.find(sub, from-1) + 1: the first occurrence at or after `from`, 0 if none
MinOr0(S) == IF S = {} THEN 0 ELSE Min(S)

MaxOr0(S) == IF S = {} THEN 0 ELSE Max(S)

Find(s, sub, from) == MinOr0(Occurrences(s, sub, from))

\* s.rfind(sub) + 1: the last occurrence, 0 if none
RFind(s, sub) == MaxOr0(Occurrences(s, sub, 1))

\* sub in s
Contains(s, sub) == Occurrences(s, sub, 1) # {}

\* s.rstrip(c): every trailing c is removed
RStrip(s, c) == Slice(s, 1, MaxOr0({i \in 1..Len(s) : s[i] # c}))

\* the concatenation of a sequence of strings
RECURSIVE Cat(_)
Cat(ss) == IF ss = <<>> THEN <<>> ELSE Head(ss) \o Cat(Tail(ss))

\* every sequence over S of length at most n
SeqsUpTo(S, n) == UNION {[1..k -> S] : k \in 0..n}

---------------------------------------------------------------------------
(* urllib.parse, as normalize_url and classify_github_url use it           *)

scheme_chars == LowerLetters \cup UpperLetters \cup Digits \cup {"+", "-", "."}

uses_params ==
    {<<>>, <<"f","t","p">>, <<"h","d","l">>, <<"p","r","o","s","p","e","r","o">>,
     <<"h","t","t","p">>, <<"i","m","a","p">>, <<"h","t","t","p","s">>,
     <<"s","h","t","t","p">>, <<"r","t","s","p">>, <<"r","t","s","p","s">>,
     <<"r","t","s","p","u">>, <<"s","i","p">>, <<"s","i","p","s">>, <<"m","m","s">>,
     <<"s","f","t","p">>, <<"t","e","l">>}

uses_netloc ==
    {<<>>, <<"f","t","p">>, <<"h","t","t","p">>, <<"g","o","p","h","e","r">>,
     <<"n","n","t","p">>, <<"t","e","l","n","e","t">>, <<"i","m","a","p">>,
     <<"w","a","i","s">>, <<"f","i","l","e">>, <<"m","m","s">>,
     <<"h","t","t","p","s">>, <<"s","h","t","t","p">>, <<"s","n","e","w","s">>,
     <<"p","r","o","s","p","e","r","o">>, <<"r","t","s","p">>,
     <<"r","t","s","p","s">>, <<"r","t","s","p","u">>, <<"r","s","y","n","c">>,
     <<"s","v","n">>, <<"s","v","n","+","s","s","h">>, <<"s","f","t","p">>,
     <<"n","f","s">>, <<"g","i","t">>, <<"g","i","t","+","s","s","h">>,
     <<"w","s">>, <<"w","s","s">>}

\* urlsplit: the 1-based position of the ':' ending the scheme, 0 if the text
\* before the first ':' is not a scheme
SchemeAt(url, i) ==
    IF /\ i > 1
       /\ url[1] \in LowerLetters \cup UpperLetters
       /\ \A k \in 1..(i - 1) : url[k] \in scheme_chars
    THEN i ELSE 0

SchemeColon(url) == SchemeAt(url, Find(url, <<":">>, 1))

\* _splitnetloc(url, 2): the 1-based position of the first of "/?#" after the
\* leading "//", Len(url) + 1 if there is none
FirstOr(S, d) == IF S = {} THEN d ELSE Min(S)

NetlocEnd(url) ==
    FirstOr({i \in 3..Len(url) : url[i] \in {"/", "?", "#"}}, Len(url) + 1)

\* _splitparams(url): the 1-based position of the ';' that starts the params
\* (searched from the last '/' on), 0 if there is none
ParamsSemicolon(url) ==
    IF Contains(url, <<"/">>)
    THEN Find(url, <<";">>, RFind(url, <<"/">>))
    ELSE Find(url, <<";">>, 1)

\* u.split(c, 1) given the 1-based position i of the first c in u (0: none)
SplitAt(u, i) ==
    IF i > 0 THEN <<Slice(u, 1, i - 1), Slice(u, i + 1, Len(u))>>
    ELSE <<u, <<>> >>

\* urlsplit, the scheme: <<scheme, rest>> given c = SchemeColon(url)
SplitScheme(url, c) ==
    IF c > 0 THEN <<Lower(Slice(url, 1, c - 1)), Slice(url, c + 1, Len(url))>>
    ELSE << <<>>, url>>

\* urlsplit, the netloc: <<netloc, rest>> given e = NetlocEnd(url)
SplitNetloc(url, e) ==
    IF StartsWith(url, <<"/", "/">>)
    THEN <<Slice(url, 3, e - 1), Slice(url, e, Len(url))>>
    ELSE << <<>>, url>>

\* urlparse, the params, split off the path only for a scheme of uses_params
SplitParams(scheme, url) ==
    IF scheme \in uses_params /\ Contains(url, <<";">>)
    THEN (IF ParamsSemicolon(url) > 0 THEN SplitAt(url, ParamsSemicolon(url))
          ELSE <<url, <<>> >>)
    ELSE <<url, <<>> >>

\* the ParseResult.  ok = FALSE stands for the ValueError("Invalid IPv6 URL")
\* that urlsplit raises for a netloc with one of '[' and ']' only.
ParseResult(scheme, netloc, pp, query, fragment) ==
    [ok |-> Contains(netloc, <<"[">>) = Contains(netloc, <<"]">>),
     scheme |-> scheme, netloc |-> netloc, path |-> pp[1], params |-> pp[2],
     query |-> query, fragment |-> fragment]

\* urlsplit after the fragment is split off: the query, then the params
ParseQuery(scheme, netloc, uq, fragment) ==
    ParseResult(scheme, netloc, SplitParams(scheme, uq[1]), uq[2], fragment)

\* urlsplit after the netloc is split off: the fragment
ParseFragment(scheme, netloc, uf) ==
    ParseQuery(scheme, netloc, SplitAt(uf[1], Find(uf[1], <<"?">>, 1)), uf[2])

\* urlsplit after the scheme is split off: the netloc
ParseNetloc(scheme, nr) ==
    ParseFragment(scheme, nr[1], SplitAt(nr[2], Find(nr[2], <<"#">>, 1)))

\* urlsplit after the scheme is split off
ParseRest(sr) == ParseNetloc(sr[1], SplitNetloc(sr[2], NetlocEnd(sr[2])))

\* urlparse(url) for a str without whitespace or control characters
urlparse(url) == ParseRest(SplitScheme(url, SchemeColon(url)))

\* urlunsplit, the part after "scheme:": "//netloc/path" when there is a
\* netloc, or the scheme is one of uses_netloc and the path has no "//"
UnsplitNetloc(scheme, netloc, url) ==
    IF \/ netloc # <<>>
       \/ (scheme # <<>> /\ scheme \in uses_netloc
             /\ ~StartsWith(url, <<"/", "/">>))
    THEN <<"/", "/">> \o netloc
           \o (IF url # <<>> /\ url[1] # "/" THEN <<"/">> \o url ELSE url)
    ELSE url

\* urlunsplit, the scheme, the query and the fragment around that part
UnsplitRest(scheme, url, query, fragment) ==
    (IF scheme # <<>> THEN scheme \o <<":">> ELSE <<>>)
        \o url
        \o (IF query # <<>> THEN <<"?">> \o query ELSE <<>>)
        \o (IF fragment # <<>> THEN <<"#">> \o fragment ELSE <<>>)

\* urlunparse((scheme, netloc, path, params, query, fragment))
urlunparse(scheme, netloc, path, params, query, fragment) ==
    UnsplitRest(scheme,
                UnsplitNetloc(scheme, netloc,
                    IF params # <<>> THEN path \o <<";">> \o params ELSE path),
                query, fragment)

---------------------------------------------------------------------------
(* Python values that reach the result sets.  A str is a one-component     *)
(* value; a tuple carries its components.  URL_RE has two capture groups,  *)
(* so findall returns 2-tuples (group 1, group 2), not strings.            *)

PyStr(s) == [type |-> "str", val |-> <<s>>]

PyTuple(t) == [type |-> "tuple", val |-> t]

---------------------------------------------------------------------------
(* normalize_url                                                           *)

http == <<"h","t","t","p">>

https == <<"h","t","t","p","s">>

\* lines 52-55: a netloc ending in the scheme's default port loses the text
\* after its last ':' (rsplit(':', 1)[0])
strip_port(scheme, netloc) ==
    IF \/ (scheme = http /\ EndsWith(netloc, <<":","8","0">>))
       \/ (scheme = https /\ EndsWith(netloc, <<":","4","4","3">>))
    THEN Slice(netloc, 1, RFind(netloc, <<":">>) - 1)
    ELSE netloc

\* a plausible slip: only one trailing '/' is removed
strip_path_once(path) ==
    IF path = <<>> THEN <<"/">>
    ELSE IF path[Len(path)] = "/" /\ Len(path) > 1
         THEN Slice(path, 1, Len(path) - 1) ELSE path

\* line 57: p.path.rstrip('/') or '/'
OrSlash(path) == IF path = <<>> THEN <<"/">> ELSE path

strip_path(path) == OrSlash(RStrip(path, "/"))

\* lines 49-59 on the parse result p of url; line 61 when urlparse raised
normalize_parsed(url, p) ==
    IF ~p.ok THEN url
    ELSE urlunparse(p.scheme, strip_port(p.scheme, Lower(p.netloc)),
                    strip_path(p.path), <<>>, p.query, <<>>)

\* normalize_url on a str
normalize_str(url) == normalize_parsed(url, urlparse(url))

\* normalize_url(url).  urlparse of a value that is not a str raises
\* (AttributeError in _decode_args), which line 60 catches: url is returned
\* unchanged.
normalize_url(url) ==
    IF url.type = "str" THEN PyStr(normalize_str(url.val[1])) ELSE url

---------------------------------------------------------------------------
(* classify_github_url                                                     *)

Categories == {"repo", "issue", "pull", "release", "raw", "clone", "other"}

RawPrefix ==
    <<"r","a","w",".","g","i","t","h","u","b","u","s","e","r",
      "c","o","n","t","e","n","t",".","c","o","m">>

\* path.split('/') without its empty items
RECURSIVE Parts(_)
PartsAt(path, i) ==
    IF i = 0 THEN <<path>>
    ELSE (IF i = 1 THEN <<>> ELSE <<Slice(path, 1, i - 1)>>)
           \o Parts(Slice(path, i + 1, Len(path)))

Parts(path) == IF path = <<>> THEN <<>> ELSE PartsAt(path, Find(path, <<"/">>, 1))

\* a plausible slip: the issue rule is tested before the raw and clone rules
classify_issue_first(url, p, path) ==
    IF ~p.ok THEN "other"
    ELSE IF Contains(path, <<"/","i","s","s","u","e","s","/">>) THEN "issue"
    ELSE IF StartsWith(p.netloc, RawPrefix) THEN "raw"
    ELSE IF EndsWith(url, <<".","g","i","t">>) THEN "clone"
    ELSE IF \/ Contains(path, <<"/","p","u","l","l","/">>)
            \/ Contains(path, <<"/","p","u","l","l","s","/">>) THEN "pull"
    ELSE IF Contains(path, <<"/","r","e","l","e","a","s","e","s">>) THEN "release"
    ELSE IF Len(Parts(path)) >= 2 THEN "repo"
    ELSE "other"

\* lines 69-84 on the parse result p of url and path = p.path.lower();
\* line 86 when urlparse raised
classify_parsed(url, p, path) ==
    IF ~p.ok THEN "other"
    ELSE IF StartsWith(p.netloc, RawPrefix) THEN "raw"
    ELSE IF EndsWith(url, <<".","g","i","t">>) THEN "clone"
    ELSE IF Contains(path, <<"/","i","s","s","u","e","s","/">>) THEN "issue"
    ELSE IF \/ Contains(path, <<"/","p","u","l","l","/">>)
            \/ Contains(path, <<"/","p","u","l","l","s","/">>) THEN "pull"
    ELSE IF Contains(path, <<"/","r","e","l","e","a","s","e","s">>) THEN "release"
    ELSE IF Len(Parts(path)) >= 2 THEN "repo"
    ELSE "other"

\* lines 66-67: the parse and the lower-cased path
classify_with(url, p) == classify_parsed(url, p, Lower(p.path))

\* classify_github_url on a str
classify_str(url) == classify_with(url, urlparse(url))

\* classify_github_url(url).  urlparse of a value that is not a str raises,
\* which line 85 catches: 'other'.
classify_github_url(url) ==
    IF url.type = "str" THEN classify_str(url.val[1]) ELSE "other"

\* GITHUB_RE.search(u): a match of (?i)github\.com anywhere in a str; a
\* TypeError for a value that is not a str
GITHUB_RE_search(u) ==
    IF u.type # "str" THEN "TypeError"
    ELSE IF Contains(Lower(u.val[1]), <<"g","i","t","h","u","b",".","c","o","m">>)
         THEN "match" ELSE "none"

---------------------------------------------------------------------------
(* URL_RE and extract_urls_from_bytes                                      *)

\* a byte that is not valid UTF-8; decode(errors='ignore') drops it
InvalidByte == "0xFF"

\* data.decode('utf-8', errors='ignore') for ASCII text with invalid bytes
decode(data) == SelectSeq(data, LAMBDA b : b # InvalidByte)

Whitespace == {" ", "\t", "\n", "\r", "\f"}

\* the characters [^\s<>"\'] excludes
Delims == Whitespace \cup {"<", ">", "\"", "'"}

WordChar(c) == c \in LowerLetters \cup UpperLetters \cup Digits \cup {"_"}

\* \b just before the 1-based position i
Boundary(text, i) ==
    (i > 1 /\ i - 1 <= Len(text) /\ WordChar(text[i - 1]))
        # (i >= 1 /\ i <= Len(text) /\ WordChar(text[i]))

\* the last position of the longest run of [^\s<>"\'] starting at i (i - 1
\* when the run is empty)
RunEnd(text, i) ==
    FirstOr({k \in i..Len(text) : text[k] \in Delims}, Len(text) + 1) - 1

\* https?://[^\s<>"\']+ with a prefix of n characters matched at i (n = 0:
\* none): the last position of the match, 0 if none
Alt1Run(text, from, n, e) == IF n > 0 /\ e >= from THEN e ELSE 0

Alt1Prefix(text, i) ==
    IF OccursAt(text, https \o <<":","/","/">>, i) THEN 8
    ELSE IF OccursAt(text, http \o <<":","/","/">>, i) THEN 7 ELSE 0

Alt1From(text, i, n) == Alt1Run(text, i + n, n, RunEnd(text, i + n))

Alt1End(text, i) == Alt1From(text, i, Alt1Prefix(text, i))

\* \bwww\.[^\s<>"\']+\b at i: the greedy run backtracks to its last position
\* that is followed by a word boundary
Alt2Ends(text, i) ==
    {e \in (i + 4)..RunEnd(text, i + 4) : Boundary(text, e + 1)}

Alt2Last(text, i, es) ==
    IF Boundary(text, i) /\ OccursAt(text, <<"w","w","w",".">>, i) /\ es # {}
    THEN Max(es) ELSE 0

Alt2End(text, i) == Alt2Last(text, i, Alt2Ends(text, i))

TLDs == {<<"c","o","m">>, <<"n","e","t">>, <<"o","r","g">>}

\* \b[^\s<>"\']+\.(com|net|org)[^\s<>"\']* at i: the positions of a '.' that
\* can be the \. of the pattern (at least one character before it, a TLD
\* after it, all within the run)
Alt3Dots(text, i) ==
    {j \in (i + 1)..(RunEnd(text, i) - 3) :
        /\ text[j] = "."
        /\ \E t \in TLDs : OccursAt(text, t, j + 1)}

\* the match of URL_RE at i as <<last position, group 1, group 2>>, or <<0>>,
\* given where each alternative would end.  The alternatives are tried in
\* order; group 2 is the TLD of the third alternative (its greedy first run
\* stops at the last '.' that a TLD follows), '' otherwise.
MatchOf(text, i, e1, e2, dots, e3) ==
    IF e1 > 0 THEN <<e1, Slice(text, i, e1), <<>> >>
    ELSE IF e2 > 0 THEN <<e2, Slice(text, i, e2), <<>> >>
    ELSE IF Boundary(text, i) /\ dots # {}
    THEN <<e3, Slice(text, i, e3), Slice(text, Max(dots) + 1, Max(dots) + 3)>>
    ELSE <<0>>

MatchAt(text, i) ==
    MatchOf(text, i, Alt1End(text, i), Alt2End(text, i), Alt3Dots(text, i),
            RunEnd(text, i))

\* URL_RE.findall(text) from position i on: the non-overlapping matches, left
\* to right, each as the tuple of its two groups
RECURSIVE FindallFrom(_, _)
FindallStep(text, i, m) ==
    IF m[1] > 0 THEN << <<m[2], m[3]>> >> \o FindallFrom(text, m[1] + 1)
    ELSE FindallFrom(text, i + 1)

FindallFrom(text, i) ==
    IF i > Len(text) THEN <<>> ELSE FindallStep(text, i, MatchAt(text, i))

URL_RE_findall(text) == FindallFrom(text, 1)

Range(f) == {f[i] : i \in DOMAIN f}

\* extract_urls_from_bytes: lines 91-92.  Each u of findall is a 2-tuple.
extract_urls_from_bytes(data) ==
    {normalize_url(PyTuple(u)) : u \in Range(URL_RE_findall(decode(data)))}

---------------------------------------------------------------------------
(* The inputs of a run                                                     *)

\* os.cpu_count() or 4 (line 29)
MAX_WORKERS == 4

NumInputs == 2

MaxMembers == 2

Workers == 1..MAX_WORKERS

InputIds == 1..NumInputs

\* "see https://github.com/acme/widgets/issues/12 and http://other.com"
TextA ==
    <<"s","e","e"," ","h","t","t","p","s",":","/","/","g","i","t","h","u","b",
      ".","c","o","m","/","a","c","m","e","/","w","i","d","g","e","t","s","/",
      "i","s","s","u","e","s","/","1","2"," ","a","n","d"," ","h","t","t","p",
      ":","/","/","o","t","h","e","r",".","c","o","m">>

\* "<www.x", an invalid byte, ".org>"
TextB == <<"<","w","w","w",".","x",InvalidByte,".","o","r","g",">">>

\* "no links"
TextN == <<"n","o"," ","l","i","n","k","s">>

Texts == {TextA, TextB, TextN}

\* a member of a container, or the content of a plain file: its bytes, or a
\* read that raises
Members ==
    {[readable |-> TRUE, data |-> t] : t \in Texts}
        \cup {[readable |-> FALSE, data |-> <<>>]}

ContainerKinds == {"zip", "tar", "tarzst"}

\* the members of the containers: two URLs, no URL, a read that raises
ContainerMembers == {m \in Members : m.data # TextB}

\* ok: the file can be opened (and, for a container, its directory parsed)
InputCatalogue ==
    {[kind |-> "file", ok |-> m.readable, members |-> <<m>>] : m \in Members}
        \cup {[kind |-> k, ok |-> TRUE, members |-> ms] :
                k \in ContainerKinds, ms \in SeqsUpTo(ContainerMembers, MaxMembers)}
        \cup {[kind |-> k, ok |-> FALSE, members |-> <<>>] : k \in ContainerKinds}

\* the inputs scanned next to the first one: a plain file, a container that
\* cannot be opened, a zip with a member that cannot be read
OtherInputs ==
    {[kind |-> "file", ok |-> TRUE,
      members |-> <<[readable |-> TRUE, data |-> TextA]>>],
     [kind |-> "tar", ok |-> FALSE, members |-> <<>>],
     [kind |-> "zip", ok |-> TRUE,
      members |-> <<[readable |-> FALSE, data |-> <<>>],
                    [readable |-> TRUE, data |-> TextA]>>]}

\* the inputs of a scan: the first is any input of the catalogue
InputSets ==
    {[i \in InputIds |-> IF i = 1 THEN c ELSE g[i]] :
        c \in InputCatalogue, g \in [InputIds \ {1} -> OtherInputs]}

\* extract_urls_from_bytes of each text of the catalogue
Extracted == [t \in Texts |-> extract_urls_from_bytes(t)]

---------------------------------------------------------------------------
(* The worker threads                                                      *)

\* a thread with no task
Idle == [pc |-> "idle", task |-> 0, pos |-> 0, urls |-> {}]

\* process_path (line 167): the reader selected by the extension of the path
process_path(i) == inputs[i].kind

\* a plausible slip: the exception leaves the task
reraise(wr) == [wr EXCEPT !.pc = "raised"]

\* the outer `except Exception: pass` of a reader (lines 115-116, 127-128,
\* 142-143, 163-164): the task returns
swallow(wr) == [wr EXCEPT !.pc = "returned"]

\* where a reader goes once handle_file_bytes has returned or raised, or the
\* read of a member has raised: process_regular_file returns (lines 114-116),
\* a container reader goes on to its next member (`continue`, lines 125-126,
\* 140-141, 161-162)
after_member(wr, kind) ==
    IF kind = "file" THEN swallow(wr)
    ELSE [wr EXCEPT !.pc = "iter", !.pos = @ + 1, !.urls = {}]

\* a plausible slip: the lock is taken even when there is nothing to merge
handle_file_bytes_no_guard(wr, kind, data) ==
    [wr EXCEPT !.pc = "acquire", !.urls = Extracted[data]]

\* handle_file_bytes up to `with lock` (lines 98-102): nothing to do without
\* URLs, otherwise the thread goes for the lock
handle_file_bytes(wr, kind, data) ==
    IF Extracted[data] = {} THEN after_member(wr, kind)
    ELSE [wr EXCEPT !.pc = "acquire", !.urls = Extracted[data]]

\* lines 104-108 given the outcome r of GITHUB_RE.search(u)
merge_searched(u, r, all, git, cls) ==
    IF r = "TypeError"
    THEN [all |-> all \cup {u}, git |-> git, cls |-> cls, raised |-> TRUE]
    ELSE IF r = "match"
    THEN [all |-> all \cup {u}, git |-> git \cup {u},
          cls |-> [cls EXCEPT ![classify_github_url(u)] = @ \cup {u}],
          raised |-> FALSE]
    ELSE [all |-> all \cup {u}, git |-> git, cls |-> cls, raised |-> FALSE]

\* a plausible slip: the URL is put into git_urls before it is tested
merge_url_git_first(u, all, git, cls) ==
    merge_searched(u, GITHUB_RE_search(u), all, git \cup {u}, cls)

\* one iteration of the loop of handle_file_bytes (lines 104-108) on the
\* three result sets; raised: GITHUB_RE.search raised after line 104 ran
merge_url(u, all, git, cls) ==
    merge_searched(u, GITHUB_RE_search(u), all, git, cls)

\* a plausible slip: acquire()/release() without try/finally
release_unless_raised(w, raised) == IF raised THEN w ELSE 0

\* the holder of the lock once the `with lock` block (line 102) is left,
\* normally or by an exception
with_exit(w, raised) == 0

---------------------------------------------------------------------------
(* Initial states                                                          *)

pureVars == <<fn, arg, res, res2>>

runVars ==
    <<inputs, zstd, poolSize, queue, worker, status, lock, all_urls, git_urls,
      git_urls_classified, acquired, round, firstRun>>

vars == <<runVars, pureVars>>

NoFunction == fn = "none" /\ arg = <<>> /\ res = <<>> /\ res2 = <<>>

EmptyResults == [all |-> {}, git |-> {}, cls |-> [c \in Categories |-> {}]]

\* the module-level state after import (lines 31-43), before any task runs
Fresh ==
    /\ queue = [i \in InputIds |-> i]
    /\ worker = [w \in Workers |-> Idle]
    /\ status = [i \in InputIds |-> "queued"]
    /\ lock = 0
    /\ all_urls = {}
    /\ git_urls = {}
    /\ git_urls_classified = [c \in Categories |-> {}]
    /\ acquired = [i \in InputIds |-> 0]

Init ==
    /\ inputs \in InputSets
    /\ zstd \in BOOLEAN
    /\ poolSize \in {1, MAX_WORKERS}
    /\ Fresh
    /\ round = 1
    /\ firstRun = EmptyResults
    /\ NoFunction

---------------------------------------------------------------------------
(* The steps of a worker thread                                            *)

TaskOf(w) == worker[w].task

\* thread w moves to wr; a task that has returned or raised frees the thread
Step(w, wr) ==
    /\ worker' = [worker EXCEPT
                    ![w] = IF wr.pc \in {"returned", "raised"} THEN Idle ELSE wr]
    /\ status' = IF wr.pc \in {"returned", "raised"}
                 THEN [status EXCEPT ![TaskOf(w)] = wr.pc] ELSE status

\* the pool: an idle thread takes the next submitted input and calls
\* process_path on it.  Threads are interchangeable: the first idle one runs.
Take(w) ==
    /\ w <= poolSize
    /\ worker[w].pc = "idle"
    /\ \A v \in 1..(w - 1) : worker[v].pc # "idle"
    /\ queue # <<>>
    /\ worker' = [worker EXCEPT
                    ![w] = [pc |-> "path", task |-> Head(queue), pos |-> 0,
                            urls |-> {}]]
    /\ status' = [status EXCEPT ![Head(queue)] = "running"]
    /\ queue' = Tail(queue)
    /\ UNCHANGED <<inputs, zstd, poolSize, lock, all_urls, git_urls,
                   git_urls_classified, acquired, round, firstRun, pureVars>>

\* what a step outside the critical section leaves alone
LocalStep ==
    UNCHANGED <<inputs, zstd, poolSize, queue, lock, all_urls, git_urls,
                git_urls_classified, acquired, round, firstRun, pureVars>>

\* process_regular_file (lines 111-116): open and read, then handle_file_bytes
process_regular_file(w) ==
    /\ worker[w].pc = "path"
    /\ process_path(TaskOf(w)) = "file"
    /\ Step(w, IF ~inputs[TaskOf(w)].ok THEN swallow(worker[w])
               ELSE handle_file_bytes(worker[w], "file",
                                      inputs[TaskOf(w)].members[1].data))
    /\ LocalStep

\* a container reader opens its input: the archive is open and its first
\* member is next, or the open raised into the outer `except`
open_container(wr, ok) ==
    IF ok THEN [wr EXCEPT !.pc = "iter", !.pos = 1] ELSE swallow(wr)

\* process_zip, line 121: zipfile.ZipFile(path)
process_zip(w) ==
    /\ worker[w].pc = "path"
    /\ process_path(TaskOf(w)) = "zip"
    /\ Step(w, open_container(worker[w], inputs[TaskOf(w)].ok))
    /\ LocalStep

\* process_tar, lines 133-134: tarfile.open(path, 'r:*') and getmembers()
process_tar(w) ==
    /\ worker[w].pc = "path"
    /\ process_path(TaskOf(w)) = "tar"
    /\ Step(w, open_container(worker[w], inputs[TaskOf(w)].ok))
    /\ LocalStep

\* process_tar_zst, lines 147-154: a silent return without zstandard
process_tar_zst(w) ==
    /\ worker[w].pc = "path"
    /\ process_path(TaskOf(w)) = "tarzst"
    /\ Step(w, IF ~zstd THEN [worker[w] EXCEPT !.pc = "returned"]
               ELSE open_container(worker[w], inputs[TaskOf(w)].ok))
    /\ LocalStep

\* one turn of a container reader's loop: the loop is over and the reader
\* returns, or the member is read and handed to handle_file_bytes, or its
\* read raises and the inner `except` goes on to the next member
read_member(wr, kind, members) ==
    IF wr.pos > Len(members) THEN [wr EXCEPT !.pc = "returned"]
    ELSE IF ~members[wr.pos].readable THEN after_member(wr, kind)
    ELSE handle_file_bytes(wr, kind, members[wr.pos].data)

\* process_zip, lines 122-126
zip_member(w) ==
    /\ worker[w].pc = "iter"
    /\ process_path(TaskOf(w)) = "zip"
    /\ Step(w, read_member(worker[w], "zip", inputs[TaskOf(w)].members))
    /\ LocalStep

\* process_tar, lines 134-141
tar_member(w) ==
    /\ worker[w].pc = "iter"
    /\ process_path(TaskOf(w)) = "tar"
    /\ Step(w, read_member(worker[w], "tar", inputs[TaskOf(w)].members))
    /\ LocalStep

\* process_tar_zst, lines 155-162
tar_zst_member(w) ==
    /\ worker[w].pc = "iter"
    /\ process_path(TaskOf(w)) = "tarzst"
    /\ Step(w, read_member(worker[w], "tarzst", inputs[TaskOf(w)].members))
    /\ LocalStep

\* `with lock:` (line 102): the thread blocks until the lock is free
acquire_lock(w) ==
    /\ worker[w].pc = "acquire"
    /\ lock = 0
    /\ lock' = w
    /\ worker' = [worker EXCEPT ![w].pc = "merge"]
    /\ acquired' = [acquired EXCEPT ![TaskOf(w)] = @ + 1]
    /\ UNCHANGED <<inputs, zstd, poolSize, queue, status, all_urls, git_urls,
                   git_urls_classified, round, firstRun, pureVars>>

\* one iteration of `for u in urls` (lines 103-108) by the holder of the
\* lock.  The order in which a set is iterated is not specified: any u not
\* yet visited may come next.  An exception, or the end of the loop, leaves
\* the `with` block, and handle_file_bytes returns or raises into its caller.
merge_result(w, m, rest) ==
    /\ all_urls' = m.all
    /\ git_urls' = m.git
    /\ git_urls_classified' = m.cls
    /\ lock' = IF m.raised \/ rest = {} THEN with_exit(w, m.raised) ELSE lock
    /\ Step(w, IF m.raised \/ rest = {}
               THEN after_member(worker[w], process_path(TaskOf(w)))
               ELSE [worker[w] EXCEPT !.urls = rest])

merge_step(w) ==
    /\ worker[w].pc = "merge"
    /\ lock = w
    /\ \E u \in worker[w].urls :
         merge_result(w, merge_url(u, all_urls, git_urls, git_urls_classified),
                      worker[w].urls \ {u})
    /\ UNCHANGED <<inputs, zstd, poolSize, queue, acquired, round, firstRun,
                   pureVars>>

WorkerStep(w) ==
    \/ Take(w)
    \/ process_regular_file(w)
    \/ process_zip(w)
    \/ process_tar(w)
    \/ process_tar_zst(w)
    \/ zip_member(w)
    \/ tar_member(w)
    \/ tar_zst_member(w)
    \/ acquire_lock(w)
    \/ merge_step(w)

Next == \E w \in Workers : WorkerStep(w)

Spec == Init /\ [][Next]_vars

\* as long as some thread can take a step, some thread takes one
FairSpec == Spec /\ WF_vars(Next)

---------------------------------------------------------------------------
(* The same inputs scanned twice: first by one thread, then by the pool    *)

AllReturned == \A i \in InputIds : status[i] \in {"returned", "raised"}

Results == [all |-> all_urls, git |-> git_urls, cls |-> git_urls_classified]

\* a second process scans the same inputs with MAX_WORKERS threads
Rerun ==
    /\ round = 1
    /\ AllReturned
    /\ round' = 2
    /\ firstRun' = Results
    /\ poolSize' = MAX_WORKERS
    /\ queue' = [i \in InputIds |-> i]
    /\ worker' = [w \in Workers |-> Idle]
    /\ status' = [i \in InputIds |-> "queued"]
    /\ lock' = 0
    /\ all_urls' = {}
    /\ git_urls' = {}
    /\ git_urls_classified' = [c \in Categories |-> {}]
    /\ acquired' = [i \in InputIds |-> 0]
    /\ UNCHANGED <<inputs, zstd, pureVars>>

InitRuns == Init /\ poolSize = 1

NextRuns == Next \/ Rerun

SpecRuns == InitRuns /\ [][NextRuns]_vars

---------------------------------------------------------------------------
(* normalize_url and classify_github_url on their own                      *)

MaxPorts == 2

MaxTail == 3

MaxPieces == 3

\* no scan is running
NoRun ==
    /\ inputs = <<>>
    /\ zstd = FALSE
    /\ poolSize = 0
    /\ queue = <<>>
    /\ worker = <<>>
    /\ status = <<>>
    /\ lock = 0
    /\ all_urls = {}
    /\ git_urls = {}
    /\ git_urls_classified = [c \in Categories |-> {}]
    /\ acquired = <<>>
    /\ round = 0
    /\ firstRun = EmptyResults

NormSchemes ==
    {<<"h","t","t","p",":","/","/">>, <<"h","t","t","p","s",":","/","/">>,
     <<"H","T","T","P",":","/","/">>, <<>>}

NormHosts == {<<"H">>, <<"[">>}

PortPieces == {<<":","8","0">>, <<":","4","4","3">>}

TailPieces == {<<"/">>, <<"/","a">>, <<";","p">>, <<"?","q">>, <<"#","f">>}

\* scheme, host, up to MaxPorts port suffixes, up to MaxTail further pieces
NormInputs ==
    {s \o h \o Cat(ps) \o Cat(ts) :
        s \in NormSchemes, h \in NormHosts,
        ps \in SeqsUpTo(PortPieces, MaxPorts), ts \in SeqsUpTo(TailPieces, MaxTail)}

InitNormalize ==
    /\ NoRun
    /\ fn = "none"
    /\ arg \in {PyStr(u) : u \in NormInputs}
    /\ res = <<>>
    /\ res2 = <<>>

normalize_once ==
    /\ fn = "none"
    /\ res' = normalize_url(arg)
    /\ fn' = "normalize_url"
    /\ UNCHANGED <<arg, res2, runVars>>

normalize_twice ==
    /\ fn = "normalize_url"
    /\ res2' = normalize_url(res)
    /\ fn' = "normalize_url twice"
    /\ UNCHANGED <<arg, res, runVars>>

NextNormalize == normalize_once \/ normalize_twice

SpecNormalize == InitNormalize /\ [][NextNormalize]_vars

ClassifyHosts ==
    {<<"h","t","t","p","s",":","/","/","g","i","t","h","u","b",".","c","o","m">>,
     <<"h","t","t","p","s",":","/","/">> \o RawPrefix}

ClassifyPieces ==
    {<<"/">>, <<"/","a","c","m","e">>, <<"/","i","s","s","u","e","s">>,
     <<"/","I","s","s","u","e","s">>, <<"/","p","u","l","l">>,
     <<"/","p","u","l","l","s">>, <<"/","r","e","l","e","a","s","e","s">>,
     <<"/","g","i","t","h","u","b",".","c","o","m">>, <<".","g","i","t">>,
     <<"?","q">>}

\* the canonical hosting URLs: normalized URLs that GITHUB_RE matches
ClassifyInputs ==
    {u \in {normalize_url(PyStr(h \o Cat(ps))) :
                h \in ClassifyHosts, ps \in SeqsUpTo(ClassifyPieces, MaxPieces)} :
        GITHUB_RE_search(u) = "match"}

InitClassify ==
    /\ NoRun
    /\ fn = "none"
    /\ arg \in ClassifyInputs
    /\ res = <<>>
    /\ res2 = <<>>

classify ==
    /\ fn = "none"
    /\ res' = classify_github_url(arg)
    /\ fn' = "classify_github_url"
    /\ UNCHANGED <<arg, res2, runVars>>

NextClassify == classify

SpecClassify == InitClassify /\ [][NextClassify]_vars

---------------------------------------------------------------------------
(* Properties                                                              *)

\* the URLs a buffer is meant to contribute: the normalized string of every
\* candidate substring the tokenizer matches (group 1 of each match)
NormalizedCandidates(data) ==
    {PyStr(normalize_str(m[1])) : m \in Range(URL_RE_findall(decode(data)))}

Kind(i) == inputs[i].kind

MembersOf(i) == inputs[i].members

\* the members of input i that can be read and hold at least one URL
WithURLs(i, js) ==
    {j \in js : MembersOf(i)[j].readable /\ Extracted[MembersOf(i)[j].data] # {}}

\* the thread that runs input i
RunnerOf(i) == CHOOSE w \in Workers : worker[w].task = i

\* the reader of input i visits every member (the input opens, and the
\* zstd reader is there when it is needed)
Opens(i) == inputs[i].ok /\ (Kind(i) = "tarzst" => zstd)

\* how many members of input i have been handed to handle_file_bytes, or
\* skipped, and are behind it: all of them once the task is over, none
\* before the reader has opened the input; a thread in the critical section
\* is on the member it counts
Done(i) ==
    IF status[i] = "queued" THEN 0
    ELSE IF status[i] \in {"returned", "raised"}
    THEN (IF Opens(i) THEN Len(MembersOf(i)) ELSE 0)
    ELSE IF worker[RunnerOf(i)].pc = "path" THEN 0
    ELSE IF Kind(i) = "file"
    THEN (IF worker[RunnerOf(i)].pc = "merge" THEN 1 ELSE 0)
    ELSE IF worker[RunnerOf(i)].pc = "merge" THEN worker[RunnerOf(i)].pos
    ELSE worker[RunnerOf(i)].pos - 1

\* C1: the same inputs scanned by one thread and then by the pool end with
\* the same AllURLs, HostingURLs and ClassifiedURLs.
C1_SameResultsForEveryPoolSize ==
    (round = 2 /\ AllReturned) => Results = firstRun

\* the seven buckets partition git_urls, every hosting URL is in the bucket
\* classify_github_url names, and git_urls is part of all_urls
BucketsPartitionHosting ==
    /\ \A c \in Categories : \A d \in Categories \ {c} :
         git_urls_classified[c] \cap git_urls_classified[d] = {}
    /\ UNION {git_urls_classified[c] : c \in Categories} = git_urls
    /\ \A u \in git_urls : u \in git_urls_classified[classify_github_url(u)]
    /\ git_urls \subseteq all_urls

C3_OncePerInput == \A i \in InputIds : acquired[i] <= 1

\* C3 as the code has it: a task acquires the lock once for every member it
\* has read that holds a URL (once per call of handle_file_bytes that finds
\* one), never for a member without URLs and never once per URL.
C3_OncePerMemberWithURLs ==
    \A i \in InputIds :
        acquired[i] = Cardinality(WithURLs(i, 1..Done(i)))

\* a container with two members that hold URLs has been scanned
C3_Witness ==
    \E i \in InputIds :
        /\ status[i] = "returned"
        /\ Kind(i) # "file"
        /\ acquired[i] = 2

\* C4: when a member of a zip or tar cannot be read, no exception leaves the
\* task and the normalized URLs of every readable member of that container
\* are in AllURLs once the task is over.
C4_SiblingsOfFailedMemberMerged ==
    \A i \in InputIds :
        (/\ status[i] \in {"returned", "raised"}
         /\ Kind(i) \in {"zip", "tar"}
         /\ inputs[i].ok
         /\ \E j \in DOMAIN MembersOf(i) : ~MembersOf(i)[j].readable)
        => /\ status[i] = "returned"
           /\ \A j \in DOMAIN MembersOf(i) :
                MembersOf(i)[j].readable
                    => NormalizedCandidates(MembersOf(i)[j].data) \subseteq all_urls

\* a container that cannot be opened
Corrupt(i) == Kind(i) # "file" /\ ~inputs[i].ok

C6_Idempotent == fn = "normalize_url twice" => res2 = res

\* url put together again as normalize_url does, with `path` as its path
Reassembled(url, p, path) ==
    PyStr(urlunparse(p.scheme, strip_port(p.scheme, Lower(p.netloc)), path,
                     <<>>, p.query, <<>>))

\* the path without one trailing '/', the root path and the empty path as '/'
WithoutOneSlash(path) ==
    IF path = <<>> \/ path = <<"/">> THEN <<"/">>
    ELSE IF path[Len(path)] = "/" THEN SubSeq(path, 1, Len(path) - 1)
    ELSE path

\* C7 as stated: the path of the result is the parsed path without exactly
\* one trailing '/', '/' for an empty path.
C7_StripsOneTrailingSlash ==
    (fn = "normalize_url" /\ urlparse(arg.val[1]).ok)
        => res = Reassembled(arg.val[1], urlparse(arg.val[1]),
                             WithoutOneSlash(urlparse(arg.val[1]).path))

\* q is path without its trailing slashes: a prefix of path that does not
\* end in '/', followed by nothing but '/'
IsSlashStripped(path, q) ==
    /\ Len(q) <= Len(path)
    /\ q = SubSeq(path, 1, Len(q))
    /\ (q # <<>> => q[Len(q)] # "/")
    /\ \A k \in (Len(q) + 1)..Len(path) : path[k] = "/"

\* C7 as the code has it: the path of the result is the parsed path without
\* any of its trailing '/', and '/' when nothing is left.
C7_StripsEveryTrailingSlash ==
    (fn = "normalize_url" /\ urlparse(arg.val[1]).ok)
        => \E n \in 0..Len(urlparse(arg.val[1]).path) :
             /\ IsSlashStripped(urlparse(arg.val[1]).path,
                                SubSeq(urlparse(arg.val[1]).path, 1, n))
             /\ res = Reassembled(arg.val[1], urlparse(arg.val[1]),
                        IF n = 0 THEN <<"/">>
                        ELSE SubSeq(urlparse(arg.val[1]).path, 1, n))

\* a path with something before two trailing slashes was normalized
C7_Witness ==
    /\ fn = "normalize_url"
    /\ urlparse(arg.val[1]).ok
    /\ Len(urlparse(arg.val[1]).path) > 2
    /\ EndsWith(urlparse(arg.val[1]).path, <<"/", "/">>)
    /\ urlparse(arg.val[1]).path[1] = "/"
    /\ RStrip(urlparse(arg.val[1]).path, "/") # <<>>

\* the lower-cased path has a '/'-separated segment equal to name
HasSegment(url, name) ==
    \E k \in DOMAIN Parts(Lower(urlparse(url).path)) :
        Parts(Lower(urlparse(url).path))[k] = name

\* the first matching rule of the list, a rule on a segment of the path
\* matching when the path has that segment
CategoryBySegments(url) ==
    IF StartsWith(urlparse(url).netloc, RawPrefix) THEN "raw"
    ELSE IF EndsWith(url, <<".","g","i","t">>) THEN "clone"
    ELSE IF HasSegment(url, <<"i","s","s","u","e","s">>) THEN "issue"
    ELSE IF \/ HasSegment(url, <<"p","u","l","l">>)
            \/ HasSegment(url, <<"p","u","l","l","s">>) THEN "pull"
    ELSE IF HasSegment(url, <<"r","e","l","e","a","s","e","s">>) THEN "release"
    ELSE IF Len(Parts(Lower(urlparse(url).path))) >= 2 THEN "repo"
    ELSE "other"

\* C8 as stated: a canonical hosting URL gets the category of the first rule
\* that matches, the issue, pull and release rules asking for a segment of
\* the path.
C8_FirstMatchBySegments ==
    fn = "classify_github_url" => res = CategoryBySegments(arg.val[1])

IsRaw(url) == StartsWith(urlparse(url).netloc, RawPrefix)

IsClone(url) == EndsWith(url, <<".","g","i","t">>)

InPath(url, sub) == Contains(Lower(urlparse(url).path), sub)

IsIssue(url) == InPath(url, <<"/","i","s","s","u","e","s","/">>)

IsPull(url) ==
    InPath(url, <<"/","p","u","l","l","/">>)
        \/ InPath(url, <<"/","p","u","l","l","s","/">>)

IsRelease(url) == InPath(url, <<"/","r","e","l","e","a","s","e","s">>)

IsRepo(url) == Len(Parts(Lower(urlparse(url).path))) >= 2

\* C8 as the code has it: the first rule that matches decides, the issue
\* rule asking for "/issues/" in the lower-cased path, the pull rule for
\* "/pull/" or "/pulls/", the release rule for "/releases".
C8_FirstMatchBySubstrings ==
    fn = "classify_github_url" =>
        /\ IsRaw(arg.val[1]) => res = "raw"
        /\ (~IsRaw(arg.val[1]) /\ IsClone(arg.val[1])) => res = "clone"
        /\ (~IsRaw(arg.val[1]) /\ ~IsClone(arg.val[1]) /\ IsIssue(arg.val[1]))
              => res = "issue"
        /\ (/\ ~IsRaw(arg.val[1]) /\ ~IsClone(arg.val[1])
            /\ ~IsIssue(arg.val[1]) /\ IsPull(arg.val[1])) => res = "pull"
        /\ (/\ ~IsRaw(arg.val[1]) /\ ~IsClone(arg.val[1])
            /\ ~IsIssue(arg.val[1]) /\ ~IsPull(arg.val[1])
            /\ IsRelease(arg.val[1])) => res = "release"
        /\ (/\ ~IsRaw(arg.val[1]) /\ ~IsClone(arg.val[1])
            /\ ~IsIssue(arg.val[1]) /\ ~IsPull(arg.val[1])
            /\ ~IsRelease(arg.val[1]))
              => res = (IF IsRepo(arg.val[1]) THEN "repo" ELSE "other")

\* a URL that matches the raw rule and the issue rule was classified
C8_Witness ==
    /\ fn = "classify_github_url"
    /\ IsRaw(arg.val[1])
    /\ IsIssue(arg.val[1])
    /\ res = "raw"

IssueURL ==
    <<"h","t","t","p","s",":","/","/","g","i","t","h","u","b",".","c","o","m",
      "/","a","c","m","e","/","w","i","d","g","e","t","s","/","i","s","s","u",
      "e","s","/","1","2">>

OtherURL ==
    <<"h","t","t","p",":","/","/","o","t","h","e","r",".","c","o","m","/">>

\* only input i holds anything: every other input is a file that cannot be
\* read
OnlyInput(i) ==
    \A j \in InputIds \ {i} : Kind(j) = "file" /\ ~inputs[j].ok

\* C9: a scan of the one plain file "see https://github.com/acme/widgets/
\* issues/12 and http://other.com" ends with the two normalized URLs in
\* AllURLs and the first of them in HostingURLs and in the issue bucket; and
\* every element of AllURLs is the normalized string of a candidate of some
\* member.
C9_EndToEnd ==
    /\ \A i \in InputIds :
         (/\ AllReturned
          /\ OnlyInput(i)
          /\ inputs[i] = [kind |-> "file", ok |-> TRUE,
                          members |-> <<[readable |-> TRUE, data |-> TextA]>>])
         => /\ all_urls = {PyStr(IssueURL), PyStr(OtherURL)}
            /\ git_urls = {PyStr(IssueURL)}
            /\ git_urls_classified["issue"] = {PyStr(IssueURL)}
    /\ \A u \in all_urls :
         \E i \in InputIds : \E j \in DOMAIN MembersOf(i) :
             u \in NormalizedCandidates(MembersOf(i)[j].data)

\* C10: the lock is held only inside the critical section, never while a
\* thread opens an input or reads a member, and in the end every task is
\* over and the lock is free.
C10_LockReleasedAndTasksComplete ==
    /\ [](\A w \in Workers : lock = w => worker[w].pc = "merge")
    /\ <>[](AllReturned /\ lock = 0)

\* every task is over with the lock free, after a critical section that an
\* exception cut short: a member's URLs were merged only in part
C10_Witness ==
    /\ AllReturned
    /\ lock = 0
    /\ \E i \in InputIds : \E j \in DOMAIN MembersOf(i) :
         /\ acquired[i] > 0
         /\ MembersOf(i)[j].readable
         /\ Extracted[MembersOf(i)[j].data] \cap all_urls # {}
         /\ ~(Extracted[MembersOf(i)[j].data] \subseteq all_urls)

====
